---- MODULE Spec2Model ----
(***************************************************************************)
(* Device check-in / check-out registry: the DeviceRepository contract and *)
(* its two implementations, InMemoryDeviceRepository (Maps held in the     *)
(* process) and SupabaseDeviceRepository (three tables behind the          *)
(* supabase-js query builder).                                             *)
(*                                                                         *)
(* A run drives ONE repository instance (impl, fixed by the constructor    *)
(* call) through a sequence of repository calls.  Every call is one        *)
(* action; its outcome (error thrown, value returned, tables touched) is   *)
(* recorded in last.                                                       *)
(*                                                                         *)
(* Abstractions: a Date is a number of clock ticks; an optional field is   *)
(* the empty set (undefined / null) or a singleton; the descriptive        *)
(* columns brand, model, owner, photoURL, updatedAt and serial are copied  *)
(* verbatim by every operation and are left out; a list returned by a      *)
(* query is the set of its records (ids are unique inside one collection). *)
(* Objects handed to the in-memory repository are assumed not to be        *)
(* mutated by the caller afterwards nor shared between two calls.          *)
(***************************************************************************)
EXTENDS Integers, FiniteSets, Sequences, TLC

\* ------------------------------------------------------------------ bounds
MaxId == 2
MaxTime == 1
MaxOps == 3

DeviceIds == 1..MaxId
Dates == 0..MaxTime
BaseURLs == {"http://x"}

\* ------------------------------------------------------- optional values
None == {}
Some(x) == {x}
OptDates == {None} \cup {Some(d) : d \in Dates}

\* --------------------------------------------------------------- JS Map
MapSet(m, k, v) == [x \in (DOMAIN m) \cup {k} |-> IF x = k THEN v ELSE m[x]]
MapDelete(m, k) == [x \in (DOMAIN m) \ {k} |-> m[x]]
MapHas(m, k) == k \in DOMAIN m
MapValues(m) == {m[k] : k \in DOMAIN m}
EmptyMap == [x \in {} |-> {}]

\* ------------------------------------------------- conversions at the wire
\* Date.prototype.toISOString and new Date(isoString)
toISOString(d) == <<"iso", d>>
NewDate(s) == s[2]
\* URL.prototype.toString and new URL(href)
NewURL(href) == [href |-> href]
URLtoString(u) == u.href
\* row.checkin_at ? new Date(row.checkin_at) : undefined
DateOrUndefined(col) == {NewDate(s) : s \in col}

\* ------------------------------------------------------------ domain model
\* Helper: new URL(`/frequent/checkin/${deviceId}`, baseURL) and its checkout twin
getFrequentCheckinURL(deviceId, baseURL) == NewURL(<<baseURL, "/frequent/checkin/", deviceId>>)
getFrequentCheckoutURL(deviceId, baseURL) == NewURL(<<baseURL, "/device/checkout/", deviceId>>)

Computer(id, checkinAt) == [id |-> id, checkinAt |-> checkinAt, checkoutAt |-> None]
FrequentComputer(id, checkinAt, base) ==
    [device |-> Computer(id, checkinAt),
     checkinURL |-> getFrequentCheckinURL(id, base),
     checkoutURL |-> getFrequentCheckoutURL(id, base)]

\* what a caller passes in: a device with no checkinAt, or one it stamped itself
\* with the current time (as MedicalDeviceService.checkinMedicalDevice does)
ComputerInputs(now) == {Computer(id, c) : id \in DeviceIds, c \in {None, Some(now)}}
FrequentInputs(now) ==
    {FrequentComputer(id, c, b) : id \in DeviceIds, c \in {None, Some(now)}, b \in BaseURLs}

\* ------------------------------------------------------------------ errors
NoError == "none"
DeviceNotFound == "DeviceNotFound"
DuplicateDevice == "DuplicateDevice"
\* a null dereference `map.get(id)!.x = ...` on a missing key
TypeError == "TypeError"
\* errors handed back by the query builder and re-thrown unchanged
StorageError == "StorageError"
UniqueViolation == "PostgrestError 23505"
NoRowsReturned == "PostgrestError PGRST116"

Result(st, err, ret, attempted) == [st |-> st, err |-> err, ret |-> ret, attempted |-> attempted]

\* =========================================================================
\* InMemoryDeviceRepository
\* =========================================================================
InMemoryInit ==
    [computers |-> EmptyMap, medicalDevices |-> EmptyMap,
     enteredDevices |-> EmptyMap, frequentComputer |-> EmptyMap]

mapDeviceFromComputer(computer, now) ==
    [id |-> computer.id, checkinAt |-> Some(now), type |-> "computer"]
\* variant: the medical-device entry carries the tag of mapDeviceFromComputer
mapDeviceFromMedicalDevice_ComputerTag(device, now) ==
    [id |-> device.id, checkinAt |-> Some(now), type |-> "computer"]
mapDeviceFromMedicalDevice(device, now) ==
    [id |-> device.id, checkinAt |-> Some(now), type |-> "medical-device"]
mapDeviceFrequentComputer(computer, now) ==
    [id |-> computer.device.id, checkinAt |-> Some(now), type |-> "frequent-computer"]

InMemory_getComputers(m) == MapValues(m.computers)
InMemory_getMedicalDevices(m) == MapValues(m.medicalDevices)
InMemory_getFrequentComputers(m) == MapValues(m.frequentComputer)
InMemory_getEnteredDevices(m) == MapValues(m.enteredDevices)
InMemory_isDeviceEntered(m, id) == MapHas(m.enteredDevices, id)
InMemory_isFrequentComputerRegistered(m, id) == MapHas(m.frequentComputer, id)

InMemory_registerFrequentComputer(m, computer) ==
    Result([m EXCEPT !.frequentComputer = MapSet(@, computer.device.id, computer)],
           NoError, computer, <<>>)

InMemory_checkinComputer(m, computer, now) ==
    Result([m EXCEPT !.computers = MapSet(@, computer.id, computer),
                     !.enteredDevices = MapSet(@, computer.id, mapDeviceFromComputer(computer, now))],
           NoError, computer, <<>>)

InMemory_checkinMedicalDevice(m, device, now) ==
    Result([m EXCEPT !.medicalDevices = MapSet(@, device.id, device),
                     !.enteredDevices = MapSet(@, device.id, mapDeviceFromMedicalDevice(device, now))],
           NoError, device, <<>>)

InMemory_checkinFrequentComputer(m, id, datetime, now) ==
    IF ~MapHas(m.frequentComputer, id)
    THEN Result(m, DeviceNotFound, None, <<>>)
    ELSE LET computer == [m.frequentComputer[id] EXCEPT !.device.checkinAt = Some(datetime)]
         IN Result([m EXCEPT !.frequentComputer = MapSet(@, id, computer),
                             !.enteredDevices = MapSet(@, id, mapDeviceFrequentComputer(computer, now))],
                   NoError, computer, <<>>)

\* the map the switch of checkoutDevice selects for an entered-device tag
InMemory_mapOfType(type) ==
    CASE type = "computer" -> "computers"
      [] type = "medical-device" -> "medicalDevices"
      [] type = "frequent-computer" -> "frequentComputer"

InMemory_checkoutDevice(m, id, datetime) ==
    IF ~MapHas(m.enteredDevices, id)
    THEN Result(m, DeviceNotFound, None, <<>>)
    ELSE LET device == m.enteredDevices[id]
             field == InMemory_mapOfType(device.type)
         IN IF ~MapHas(m[field], id)
            THEN Result(m, TypeError, None, <<field>>)
            ELSE LET stamped ==
                       IF device.type = "frequent-computer"
                       THEN [m EXCEPT !.frequentComputer[id].device.checkoutAt = Some(datetime)]
                       ELSE [m EXCEPT ![field][id].checkoutAt = Some(datetime)]
                 IN Result([stamped EXCEPT !.enteredDevices = MapDelete(@, id)],
                           NoError, None, <<field>>)

\* =========================================================================
\* SupabaseDeviceRepository
\* =========================================================================
SupabaseInit ==
    [computers |-> EmptyMap, medical_devices |-> EmptyMap, frequent_computers |-> EmptyMap]

Tables == {"computers", "medical_devices", "frequent_computers"}

\* .from(table).insert(row): id is the primary key of every table
InsertError(table, row, fault) ==
    IF fault THEN StorageError
    ELSE IF MapHas(table, row.id) THEN UniqueViolation
    ELSE NoError

\* variant: the patch names the wrong column
UpdateCheckoutAt_WrongColumn(table, id, datetime) ==
    [x \in DOMAIN table |->
        IF x = id THEN [table[x] EXCEPT !.checkin_at = Some(toISOString(datetime))]
        ELSE table[x]]

\* .from(table).update(patch).eq("id", id): a row that is not there is no error
UpdateCheckoutAt(table, id, datetime) ==
    [x \in DOMAIN table |->
        IF x = id THEN [table[x] EXCEPT !.checkout_at = Some(toISOString(datetime))]
        ELSE table[x]]
UpdateCheckinAt(table, id, datetime) ==
    [x \in DOMAIN table |->
        IF x = id THEN [table[x] EXCEPT !.checkin_at = Some(toISOString(datetime))]
        ELSE table[x]]

\* data.map(row => ({...})) of getComputers / getMedicalDevices
RowToDevice(row) ==
    [id |-> row.id,
     checkinAt |-> DateOrUndefined(row.checkin_at),
     checkoutAt |-> DateOrUndefined(row.checkout_at)]
\* the row mapping of getFrequentComputers / checkinFrequentComputer
RowToFrequentComputer(row) ==
    [device |-> RowToDevice(row),
     checkinURL |-> NewURL(row.checkin_url),
     checkoutURL |-> NewURL(row.checkout_url)]

Supabase_registerFrequentComputer(d, computer, fault) ==
    LET row == [id |-> computer.device.id,
                checkin_url |-> URLtoString(computer.checkinURL),
                checkout_url |-> URLtoString(computer.checkoutURL),
                checkin_at |-> {toISOString(t) : t \in computer.device.checkinAt},
                checkout_at |-> None]
        error == InsertError(d.frequent_computers, row, fault)
    IN IF error # NoError
       THEN Result(d, error, None, <<"frequent_computers">>)
       ELSE Result([d EXCEPT !.frequent_computers = MapSet(@, row.id, row)],
                   NoError, computer, <<"frequent_computers">>)

Supabase_checkinFrequentComputer(d, id, datetime, fault) ==
    IF fault THEN Result(d, StorageError, None, <<"frequent_computers">>)
    ELSE IF ~MapHas(d.frequent_computers, id)
    THEN Result(d, NoRowsReturned, None, <<"frequent_computers">>)
    ELSE LET table == UpdateCheckinAt(d.frequent_computers, id, datetime)
         IN Result([d EXCEPT !.frequent_computers = table], NoError,
                   RowToFrequentComputer(table[id]), <<"frequent_computers">>)

Supabase_isFrequentComputerRegistered(d, id) == MapHas(d.frequent_computers, id)

Supabase_checkinComputer(d, computer, now, fault) ==
    LET row == [id |-> computer.id, checkin_at |-> Some(toISOString(now)), checkout_at |-> None]
        error == InsertError(d.computers, row, fault)
    IN IF error # NoError
       THEN Result(d, error, None, <<"computers">>)
       ELSE Result([d EXCEPT !.computers = MapSet(@, row.id, row)], NoError,
                   [computer EXCEPT !.checkinAt = Some(now)], <<"computers">>)

Supabase_checkinMedicalDevice(d, device, now, fault) ==
    LET row == [id |-> device.id, checkin_at |-> Some(toISOString(now)), checkout_at |-> None]
        error == InsertError(d.medical_devices, row, fault)
    IN IF error # NoError
       THEN Result(d, error, None, <<"medical_devices">>)
       ELSE Result([d EXCEPT !.medical_devices = MapSet(@, row.id, row)], NoError,
                   [device EXCEPT !.checkinAt = Some(now)], <<"medical_devices">>)

\* the queries below are taken with empty criteria ({})
Supabase_getComputers(d) == {RowToDevice(row) : row \in MapValues(d.computers)}
Supabase_getMedicalDevices(d) == {RowToDevice(row) : row \in MapValues(d.medical_devices)}

Supabase_getEnteredDevices(d) ==
    {[id |-> c.id, checkinAt |-> c.checkinAt, checkoutAt |-> c.checkoutAt, type |-> "computer"]
        : c \in Supabase_getComputers(d)}
    \cup
    {[id |-> c.id, checkinAt |-> c.checkinAt, checkoutAt |-> c.checkoutAt, type |-> "medical-device"]
        : c \in Supabase_getMedicalDevices(d)}

\* ------------------------------------------------ queries under a criteria
\* DeviceCriteria as the queries read it: filterBy (on the id column), limit
\* and offset, each optional; sortBy is left undefined throughout
Counts == 0..(MaxId + 1)
Criteria ==
    [filterBy : {None} \cup {Some([field |-> "id", value |-> v]) : v \in DeviceIds},
     limit : {None} \cup {Some(n) : n \in Counts},
     offset : {None} \cup {Some(n) : n \in Counts}]
EmptyCriteria == [filterBy |-> None, limit |-> None, offset |-> None]
ValueOf(opt) == CHOOSE x \in opt : TRUE
Min(a, b) == IF a <= b THEN a ELSE b
Max(a, b) == IF a >= b THEN a ELSE b

\* criteria.limit ?? 10
DefaultPageSize == 10

\* if (criteria.filterBy) query = query.eq(field, value)
Eq(rows, criteria) ==
    IF criteria.filterBy # None
    THEN {row \in rows : row[ValueOf(criteria.filterBy).field] = ValueOf(criteria.filterBy).value}
    ELSE rows

\* query.limit(l) sets the request's limit; query.range(from, to) sets its
\* offset to from and its limit to to - from + 1, replacing an earlier limit
QueryLimit(criteria) ==
    IF criteria.offset # None
    THEN LET from == ValueOf(criteria.offset)
             to == ValueOf(criteria.offset)
                     + (IF criteria.limit # None THEN ValueOf(criteria.limit) ELSE DefaultPageSize)
                     - 1
         IN Some(to - from + 1)
    ELSE criteria.limit
QueryOffset(criteria) == IF criteria.offset # None THEN ValueOf(criteria.offset) ELSE 0

\* the answers the backend may give to the built query: no order() is
\* applied, so which rows fall in the window is the backend's choice; only
\* their number is fixed
Select(table, criteria) ==
    LET rows == Eq(MapValues(table), criteria)
        after == Max(0, Cardinality(rows) - QueryOffset(criteria))
        n == IF QueryLimit(criteria) = None THEN after
             ELSE Min(ValueOf(QueryLimit(criteria)), after)
    IN {page \in SUBSET rows : Cardinality(page) = n}

Supabase_getComputersBy(d, criteria) ==
    {{RowToDevice(row) : row \in page} : page \in Select(d.computers, criteria)}
Supabase_getMedicalDevicesBy(d, criteria) ==
    {{RowToDevice(row) : row \in page} : page \in Select(d.medical_devices, criteria)}
Supabase_getFrequentComputersBy(d, criteria) ==
    {{RowToFrequentComputer(row) : row \in page} : page \in Select(d.frequent_computers, criteria)}

\* the in-memory queries take the criteria and return every value of the map
InMemory_getComputersBy(m, criteria) == {InMemory_getComputers(m)}
InMemory_getMedicalDevicesBy(m, criteria) == {InMemory_getMedicalDevices(m)}
InMemory_getFrequentComputersBy(m, criteria) == {InMemory_getFrequentComputers(m)}

\* variant: the error of the frequent_computers update is thrown like the others
Supabase_checkoutDevice_ThrowsThird(d, id, datetime, fault) ==
    IF fault = "computers"
    THEN Result(d, StorageError, None, <<"computers">>)
    ELSE LET d1 == [d EXCEPT !.computers =
                       [x \in DOMAIN @ |-> IF x = id
                            THEN [@[x] EXCEPT !.checkout_at = Some(toISOString(datetime))]
                            ELSE @[x]]]
         IN IF fault = "medical_devices"
            THEN Result(d1, StorageError, None, <<"computers", "medical_devices">>)
            ELSE LET d2 == [d1 EXCEPT !.medical_devices =
                               [x \in DOMAIN @ |-> IF x = id
                                    THEN [@[x] EXCEPT !.checkout_at = Some(toISOString(datetime))]
                                    ELSE @[x]]]
                 IN IF fault = "frequent_computers"
                    THEN Result(d2, StorageError, None,
                                <<"computers", "medical_devices", "frequent_computers">>)
                    ELSE Result([d2 EXCEPT !.frequent_computers =
                                    [x \in DOMAIN @ |-> IF x = id
                                         THEN [@[x] EXCEPT !.checkout_at = Some(toISOString(datetime))]
                                         ELSE @[x]]],
                                NoError, None,
                                <<"computers", "medical_devices", "frequent_computers">>)

\* fault: the table whose update comes back with an error ("none": no update
\* errors); an update that errors changes no row
Supabase_checkoutDevice(d, id, datetime, fault) ==
    IF fault = "computers"
    THEN Result(d, StorageError, None, <<"computers">>)
    ELSE LET d1 == [d EXCEPT !.computers = UpdateCheckoutAt(@, id, datetime)]
         IN IF fault = "medical_devices"
            THEN Result(d1, StorageError, None, <<"computers", "medical_devices">>)
            ELSE LET d2 == [d1 EXCEPT !.medical_devices = UpdateCheckoutAt(@, id, datetime)]
                     d3 == IF fault = "frequent_computers" THEN d2
                           ELSE [d2 EXCEPT !.frequent_computers = UpdateCheckoutAt(@, id, datetime)]
                 IN Result(d3, NoError, None,
                           <<"computers", "medical_devices", "frequent_computers">>)

Supabase_isDeviceEntered(d, id) ==
    IF MapHas(d.computers, id) THEN TRUE
    ELSE IF MapHas(d.medical_devices, id) THEN TRUE
    ELSE FALSE

\* =========================================================================
\* MedicalDeviceService.checkinMedicalDevice, one statement per step
\* =========================================================================
ValidationError == "ValidationError"
PhotoError == "photo storage error"

\* a MedDeviceRequest: whether MED_DEVICE_REQUEST_SCHEMA accepts it, and its photo
Photos == {"photo"}
Requests == [valid : BOOLEAN, photo : Photos]

\* the service between requests; pc names the statement to run next, calls
\* lists the collaborators reached for the current request, started is the
\* number of repository calls made before the request came in
ServiceIdle ==
    [pc |-> "idle", request |-> None, deviceId |-> None, photoURL |-> None,
     calls |-> <<>>, err |-> NoError, started |-> 0]

\* variant: the outcome of the schema check is not acted upon
Service_parse_Unchecked(request, started) ==
    [ServiceIdle EXCEPT !.request = Some(request), !.calls = <<"parse">>,
                        !.started = started, !.pc = "generateDeviceId"]

\* MED_DEVICE_REQUEST_SCHEMA.parse(request): throws on a request it rejects,
\* which ends checkinMedicalDevice there
Service_parse(request, started) ==
    [ServiceIdle EXCEPT !.request = Some(request), !.calls = <<"parse">>,
                        !.started = started,
                        !.pc = IF request.valid THEN "generateDeviceId" ELSE "idle",
                        !.err = IF request.valid THEN NoError ELSE ValidationError]

\* const deviceId = Helper.generateDeviceId()
Service_generateDeviceId(s, uuid) ==
    [s EXCEPT !.deviceId = Some(uuid), !.calls = Append(@, "generateDeviceId"),
              !.pc = "savePhoto"]

\* const photoURL = await this.photoRepository.savePhoto(request.photo, deviceId):
\* the collaborator answers with a URL or throws
Service_savePhoto(s, saved) ==
    IF saved
    THEN [s EXCEPT !.photoURL = Some(NewURL(<<ValueOf(s.request).photo, ValueOf(s.deviceId)>>)),
                   !.calls = Append(@, "savePhoto"), !.pc = "checkinMedicalDevice"]
    ELSE [s EXCEPT !.calls = Append(@, "savePhoto"), !.pc = "idle", !.err = PhotoError]

\* mapRequestToMedicalDevice(request, deviceId, photoURL); device.checkinAt = new Date()
Service_device(s, now) == Computer(ValueOf(s.deviceId), Some(now))

\* return await this.repository.checkinMedicalDevice(device)
Service_return(s, r) ==
    [s EXCEPT !.calls = Append(@, "checkinMedicalDevice"), !.pc = "idle", !.err = r.err]

\* =========================================================================
\* The run: one repository instance and the calls made on it
\* =========================================================================
VARIABLES impl, mem, db, ops, last, lastEvent, svc

vars == <<impl, mem, db, ops, last, lastEvent, svc>>

\* new Date(): the wall clock advances one tick with every call
Now == ops

Impls == {"memory", "supabase"}

CheckEvents == {"checkinComputer", "checkinMedicalDevice", "checkinFrequentComputer", "checkoutDevice"}

Init ==
    /\ impl \in Impls
    /\ mem = InMemoryInit
    /\ db = SupabaseInit
    /\ ops = 0
    /\ last = [op |-> "new", id |-> 0, t |-> None, fault |-> "none", prev |-> "none",
               err |-> NoError, ret |-> None, attempted |-> <<>>]
    /\ lastEvent = [id \in DeviceIds |-> "none"]
    /\ svc = ServiceIdle

\* bookkeeping shared by every call: t is the datetime argument, fault the
\* failure injected at the store, r the outcome the repository computed;
\* prev is the last successful check-in / check-out event of id before the call
Called(op, id, t, fault, r) ==
    /\ ops < MaxOps
    /\ ops' = ops + 1
    /\ last' = [op |-> op, id |-> id, t |-> t, fault |-> fault, prev |-> lastEvent[id],
                err |-> r.err, ret |-> r.ret, attempted |-> r.attempted]
    /\ lastEvent' = IF r.err = NoError /\ op \in CheckEvents
                    THEN [lastEvent EXCEPT ![id] = op]
                    ELSE lastEvent

InMemoryCall(op, id, t, r) ==
    /\ Called(op, id, t, "none", r)
    /\ mem' = r.st
    /\ UNCHANGED <<impl, db>>

FaultAt(table, fault) == IF fault THEN table ELSE "none"

SupabaseCall(op, id, t, fault, r) ==
    /\ Called(op, id, t, fault, r)
    /\ db' = r.st
    /\ UNCHANGED <<impl, mem>>

InMemoryRegisterFrequentComputer ==
    /\ impl = "memory"
    /\ UNCHANGED svc
    /\ \E f \in FrequentInputs(Now) :
            InMemoryCall("registerFrequentComputer", f.device.id, None,
                            InMemory_registerFrequentComputer(mem, f))

InMemoryCheckinComputer ==
    /\ impl = "memory"
    /\ UNCHANGED svc
    /\ \E c \in ComputerInputs(Now) :
            InMemoryCall("checkinComputer", c.id, None, InMemory_checkinComputer(mem, c, Now))

InMemoryCheckinMedicalDevice ==
    /\ impl = "memory"
    /\ UNCHANGED svc
    /\ \E c \in ComputerInputs(Now) :
            InMemoryCall("checkinMedicalDevice", c.id, None, InMemory_checkinMedicalDevice(mem, c, Now))

InMemoryCheckinFrequentComputer ==
    /\ impl = "memory"
    /\ UNCHANGED svc
    /\ \E id \in DeviceIds, t \in Dates :
            InMemoryCall("checkinFrequentComputer", id, Some(t),
                            InMemory_checkinFrequentComputer(mem, id, t, Now))

InMemoryCheckoutDevice ==
    /\ impl = "memory"
    /\ UNCHANGED svc
    /\ \E id \in DeviceIds, t \in Dates :
            InMemoryCall("checkoutDevice", id, Some(t), InMemory_checkoutDevice(mem, id, t))

SupabaseRegisterFrequentComputer ==
    /\ impl = "supabase"
    /\ UNCHANGED svc
    /\ \E f \in FrequentInputs(Now), fault \in BOOLEAN :
            SupabaseCall("registerFrequentComputer", f.device.id, None, FaultAt("frequent_computers", fault),
                         Supabase_registerFrequentComputer(db, f, fault))

SupabaseCheckinComputer ==
    /\ impl = "supabase"
    /\ UNCHANGED svc
    /\ \E c \in ComputerInputs(Now), fault \in BOOLEAN :
            SupabaseCall("checkinComputer", c.id, None, FaultAt("computers", fault),
                         Supabase_checkinComputer(db, c, Now, fault))

SupabaseCheckinMedicalDevice ==
    /\ impl = "supabase"
    /\ UNCHANGED svc
    /\ \E c \in ComputerInputs(Now), fault \in BOOLEAN :
            SupabaseCall("checkinMedicalDevice", c.id, None, FaultAt("medical_devices", fault),
                         Supabase_checkinMedicalDevice(db, c, Now, fault))

SupabaseCheckinFrequentComputer ==
    /\ impl = "supabase"
    /\ UNCHANGED svc
    /\ \E id \in DeviceIds, t \in Dates, fault \in BOOLEAN :
            SupabaseCall("checkinFrequentComputer", id, Some(t), FaultAt("frequent_computers", fault),
                         Supabase_checkinFrequentComputer(db, id, t, fault))

SupabaseCheckoutDevice ==
    /\ impl = "supabase"
    /\ UNCHANGED svc
    /\ \E id \in DeviceIds, t \in Dates, fault \in Tables \cup {"none"} :
            SupabaseCall("checkoutDevice", id, Some(t), fault, Supabase_checkoutDevice(db, id, t, fault))

Next ==
    \/ InMemoryRegisterFrequentComputer
    \/ InMemoryCheckinComputer
    \/ InMemoryCheckinMedicalDevice
    \/ InMemoryCheckinFrequentComputer
    \/ InMemoryCheckoutDevice
    \/ SupabaseRegisterFrequentComputer
    \/ SupabaseCheckinComputer
    \/ SupabaseCheckinMedicalDevice
    \/ SupabaseCheckinFrequentComputer
    \/ SupabaseCheckoutDevice

Spec == Init /\ [][Next]_vars

\* ------------------------------------------ the service in front of it
\* a request comes in and is validated
ServiceParse ==
    /\ svc.pc = "idle"
    /\ ops < MaxOps
    /\ \E request \in Requests : svc' = Service_parse(request, ops)
    /\ UNCHANGED <<impl, mem, db, ops, last, lastEvent>>

ServiceGenerateDeviceId ==
    /\ svc.pc = "generateDeviceId"
    /\ \E uuid \in DeviceIds : svc' = Service_generateDeviceId(svc, uuid)
    /\ UNCHANGED <<impl, mem, db, ops, last, lastEvent>>

ServiceSavePhoto ==
    /\ svc.pc = "savePhoto"
    /\ \E saved \in BOOLEAN : svc' = Service_savePhoto(svc, saved)
    /\ UNCHANGED <<impl, mem, db, ops, last, lastEvent>>

ServiceCheckinInMemory ==
    /\ svc.pc = "checkinMedicalDevice"
    /\ impl = "memory"
    /\ LET device == Service_device(svc, Now)
           r == InMemory_checkinMedicalDevice(mem, device, Now)
       IN /\ InMemoryCall("checkinMedicalDevice", device.id, None, r)
          /\ svc' = Service_return(svc, r)

ServiceCheckinSupabase ==
    /\ svc.pc = "checkinMedicalDevice"
    /\ impl = "supabase"
    /\ \E fault \in BOOLEAN :
          LET device == Service_device(svc, Now)
              r == Supabase_checkinMedicalDevice(db, device, Now, fault)
          IN /\ SupabaseCall("checkinMedicalDevice", device.id, None,
                             FaultAt("medical_devices", fault), r)
             /\ svc' = Service_return(svc, r)

ServiceNext ==
    \/ ServiceParse
    \/ ServiceGenerateDeviceId
    \/ ServiceSavePhoto
    \/ ServiceCheckinInMemory
    \/ ServiceCheckinSupabase

ServiceSpec == Init /\ [][ServiceNext]_vars

\* ------------------------------------------- the repository seen by a caller
getComputers == IF impl = "memory" THEN InMemory_getComputers(mem) ELSE Supabase_getComputers(db)
getMedicalDevices ==
    IF impl = "memory" THEN InMemory_getMedicalDevices(mem) ELSE Supabase_getMedicalDevices(db)
getEnteredDevices ==
    IF impl = "memory" THEN InMemory_getEnteredDevices(mem) ELSE Supabase_getEnteredDevices(db)
isDeviceEntered(id) ==
    IF impl = "memory" THEN InMemory_isDeviceEntered(mem, id) ELSE Supabase_isDeviceEntered(db, id)

\* the possible answers of the three collection queries under a criteria
getComputersBy(criteria) ==
    IF impl = "memory" THEN InMemory_getComputersBy(mem, criteria)
    ELSE Supabase_getComputersBy(db, criteria)
getMedicalDevicesBy(criteria) ==
    IF impl = "memory" THEN InMemory_getMedicalDevicesBy(mem, criteria)
    ELSE Supabase_getMedicalDevicesBy(db, criteria)
getFrequentComputersBy(criteria) ==
    IF impl = "memory" THEN InMemory_getFrequentComputersBy(mem, criteria)
    ELSE Supabase_getFrequentComputersBy(db, criteria)
\* the number of records stored in each collection
Stored ==
    IF impl = "memory"
    THEN [computers |-> Cardinality(DOMAIN mem.computers),
          medicalDevices |-> Cardinality(DOMAIN mem.medicalDevices),
          frequentComputers |-> Cardinality(DOMAIN mem.frequentComputer)]
    ELSE [computers |-> Cardinality(DOMAIN db.computers),
          medicalDevices |-> Cardinality(DOMAIN db.medical_devices),
          frequentComputers |-> Cardinality(DOMAIN db.frequent_computers)]

TypeOK ==
    /\ impl \in Impls
    /\ ops \in 0..MaxOps
    /\ DOMAIN lastEvent = DeviceIds

\* =========================================================================
\* Properties
\* =========================================================================
Called_(op) == last.op = op
Succeeded(op) == last.op = op /\ last.err = NoError

\* id belongs to the computers or the medical-devices category
InCategory(id) == \E c \in getComputers \cup getMedicalDevices : c.id = id

\* the "entered" condition of the data model, read off one stored record
OnSite(c) ==
    /\ c.checkinAt # None
    /\ \A a \in c.checkinAt, b \in c.checkoutAt : b < a

\* C1: after a successful checkoutDevice(id, t) on an id of the computers or
\* medical-devices category, isDeviceEntered(id) is false, in both repositories.
C1_CheckoutThenNotEntered ==
    (Succeeded("checkoutDevice") /\ InCategory(last.id)) => ~isDeviceEntered(last.id)

\* C2: for every id in computers or medical devices, isDeviceEntered(id) is
\* true exactly when a stored record of that id has a checkinAt and no
\* checkoutAt, or a checkoutAt older than its checkinAt.
C2_EnteredIffRecordOnSite ==
    \A id \in DeviceIds :
        InCategory(id) =>
            (isDeviceEntered(id) <=>
                \E c \in getComputers \cup getMedicalDevices : c.id = id /\ OnSite(c))

\* C3: no record returned by getEnteredDevices({}) is a device whose last
\* check-in / check-out event was a successful checkoutDevice.
C3_EnteredDevicesAreOnSite ==
    \A e \in getEnteredDevices : lastEvent[e.id] # "checkoutDevice"

isFrequentComputerRegistered(id) ==
    IF impl = "memory" THEN InMemory_isFrequentComputerRegistered(mem, id)
    ELSE Supabase_isFrequentComputerRegistered(db, id)

\* C4: checkinFrequentComputer(id, t) on an unregistered id fails with
\* DeviceNotFound and changes no stored state; on a registered id it succeeds
\* and the returned record's device.checkinAt equals t.
C4_CheckinFrequentComputer ==
    [][(last'.op = "checkinFrequentComputer" /\ ops' = ops + 1 /\ last'.fault = "none") =>
          IF isFrequentComputerRegistered(last'.id)
          THEN last'.err = NoError /\ last'.ret.device.checkinAt = last'.t
          ELSE last'.err = DeviceNotFound /\ UNCHANGED <<mem, db>>]_vars

\* id is in none of the three collections, or (in-memory) is not currently entered
NoCheckoutTarget(id) ==
    IF impl = "memory"
    THEN \/ ~InMemory_isDeviceEntered(mem, id)
         \/ ~(MapHas(mem.computers, id) \/ MapHas(mem.medicalDevices, id)
                \/ MapHas(mem.frequentComputer, id))
    ELSE ~(MapHas(db.computers, id) \/ MapHas(db.medical_devices, id)
             \/ MapHas(db.frequent_computers, id))

\* C5: checkoutDevice(id, t) on an id that exists in none of the three
\* collections (or, in memory, is not currently entered) fails with
\* DeviceNotFound and leaves every stored record unchanged, in every repository.
C5_CheckoutMissingFails ==
    [][(last'.op = "checkoutDevice" /\ ops' = ops + 1 /\ last'.fault = "none"
            /\ NoCheckoutTarget(last'.id)) =>
          (last'.err = DeviceNotFound /\ UNCHANGED <<mem, db>>)]_vars

\* C6: after a successful checkinComputer(c), with or without a checkinAt on c,
\* getComputers({}) holds a record with id = c.id and a non-null checkinAt, and
\* the returned value has a checkinAt; likewise for checkinMedicalDevice.
C6_CheckinStampsCheckinAt ==
    /\ Succeeded("checkinComputer") =>
          /\ \E c \in getComputers : c.id = last.id /\ c.checkinAt # None
          /\ last.ret.checkinAt # None
    /\ Succeeded("checkinMedicalDevice") =>
          /\ \E c \in getMedicalDevices : c.id = last.id /\ c.checkinAt # None
          /\ last.ret.checkinAt # None

\* C7: a successful checkoutDevice(id, t) on an id whose last check-in was
\* checkinComputer leaves in getComputers({}) a record of that id with
\* checkoutAt = t; likewise for a medical device and getMedicalDevices({}).
C7_CheckoutStampsCheckoutAt ==
    Succeeded("checkoutDevice") =>
        /\ last.prev = "checkinComputer" =>
              \E c \in getComputers : c.id = last.id /\ c.checkoutAt = last.t
        /\ last.prev = "checkinMedicalDevice" =>
              \E c \in getMedicalDevices : c.id = last.id /\ c.checkoutAt = last.t

C7_Witness ==
    /\ Succeeded("checkoutDevice")
    /\ last.prev = "checkinComputer"
    /\ \E c \in getComputers : c.id = last.id /\ c.checkinAt # None /\ c.checkoutAt = last.t

\* every stored device record: computers, medical devices and the device
\* wrapped by each frequent computer
StoredDevices ==
    IF impl = "memory"
    THEN MapValues(mem.computers) \cup MapValues(mem.medicalDevices)
            \cup {f.device : f \in MapValues(mem.frequentComputer)}
    ELSE {RowToDevice(row) : row \in MapValues(db.computers) \cup MapValues(db.medical_devices)}
            \cup {RowToFrequentComputer(row).device : row \in MapValues(db.frequent_computers)}

\* C8: every stored device record that has both checkinAt and checkoutAt has
\* checkoutAt >= checkinAt.
C8_CheckoutNotBeforeCheckin ==
    \A c \in StoredDevices : \A a \in c.checkinAt, b \in c.checkoutAt : b >= a

\* the three collections in the order checkoutDevice is said to visit them
Collections ==
    IF impl = "memory"
    THEN <<"computers", "medicalDevices", "frequentComputer">>
    ELSE <<"computers", "medical_devices", "frequent_computers">>

\* the update order and error policy of checkoutDevice, read off the last call
ThreeUpdatesInOrder ==
    /\ last.fault = Collections[1] =>
          /\ last.err = StorageError
          /\ last.attempted = <<Collections[1]>>
    /\ last.fault = Collections[2] =>
          /\ last.err = StorageError
          /\ last.attempted = <<Collections[1], Collections[2]>>
          /\ \A c \in getComputers : c.id = last.id => c.checkoutAt = last.t
    /\ last.fault \in {Collections[3], "none"} =>
          /\ last.err = NoError
          /\ last.attempted = Collections
          /\ \A c \in getComputers \cup getMedicalDevices : c.id = last.id => c.checkoutAt = last.t

\* what the in-memory checkoutDevice does instead: one map, chosen by the
\* category the id was last checked in under, or DeviceNotFound and no update
OneUpdateByType ==
    /\ last.prev \in {"none", "checkoutDevice"} =>
          last.err = DeviceNotFound /\ last.attempted = <<>>
    /\ last.prev = "checkinComputer" =>
          last.err = NoError /\ last.attempted = <<"computers">>
    /\ last.prev = "checkinMedicalDevice" =>
          last.err = NoError /\ last.attempted = <<"medicalDevices">>
    /\ last.prev = "checkinFrequentComputer" =>
          last.err = NoError /\ last.attempted = <<"frequentComputer">>

\* C9 as stated: in every repository checkoutDevice attempts the update on
\* computers, then medical devices, then frequent computers, all three
\* whichever holds the id; an error of the first or second aborts and is
\* thrown, an error of the third is swallowed.
C9_ThreeUpdatesEverywhere == Called_("checkoutDevice") => ThreeUpdatesInOrder

\* C9 as amended: the remote repository attempts the three updates in that
\* order with that error policy; the in-memory repository updates only the map
\* of the category the id was last checked in under, and throws DeviceNotFound
\* without any update when the id is not currently entered.
C9_CheckoutUpdateOrder ==
    Called_("checkoutDevice") =>
        IF impl = "supabase" THEN ThreeUpdatesInOrder ELSE OneUpdateByType

C9_Witness ==
    /\ impl = "supabase"
    /\ Called_("checkoutDevice")
    /\ last.fault = "medical_devices"
    /\ last.err = StorageError
    /\ \E c \in getComputers : c.id = last.id /\ c.checkoutAt = last.t

\* C10: registerFrequentComputer(f) with an id that is already registered fails
\* with DuplicateDevice and leaves the registered record unchanged.
C10_DuplicateRegistrationFails ==
    [][(last'.op = "registerFrequentComputer" /\ ops' = ops + 1 /\ last'.fault = "none"
            /\ isFrequentComputerRegistered(last'.id)) =>
          (last'.err = DuplicateDevice /\ UNCHANGED <<mem, db>>)]_vars

\* the records getEnteredDevices({}) returns for id under a category tag
EnteredAs(id, type) == {e \in getEnteredDevices : e.id = id /\ e.type = type}

\* the state right after one checkinComputer and one checkinMedicalDevice, with
\* distinct ids, on a fresh repository
OneComputerOneMedicalDevice ==
    /\ ops = 2
    /\ Cardinality(getComputers) = 1
    /\ Cardinality(getMedicalDevices) = 1
    /\ \A c \in getComputers, d \in getMedicalDevices : c.id # d.id

\* C11: after checking in one computer and one medical device with distinct
\* ids into an empty repository, getEnteredDevices({}) returns exactly two
\* records, the computer's id tagged "computer" and the medical device's id
\* tagged "medical-device"; in general every checked-in, not yet checked-out
\* computer or medical device appears exactly once under its category's tag.
C11_EnteredDevicesTaggedByCategory ==
    /\ OneComputerOneMedicalDevice =>
          /\ Cardinality(getEnteredDevices) = 2
          /\ \A c \in getComputers : Cardinality(EnteredAs(c.id, "computer")) = 1
          /\ \A d \in getMedicalDevices : Cardinality(EnteredAs(d.id, "medical-device")) = 1
    /\ \A c \in getComputers :
          c.checkoutAt = None => Cardinality(EnteredAs(c.id, "computer")) = 1
    /\ \A d \in getMedicalDevices :
          d.checkoutAt = None => Cardinality(EnteredAs(d.id, "medical-device")) = 1

\* id was last checked in as a frequent computer and exists in neither the
\* computers nor the medical-devices collection
FrequentOnlyCheckedIn(id) ==
    /\ lastEvent[id] = "checkinFrequentComputer"
    /\ isFrequentComputerRegistered(id)
    /\ ~InCategory(id)

ExcludedFromOnSiteView(id) ==
    /\ ~isDeviceEntered(id)
    /\ \A e \in getEnteredDevices : e.id # id

\* C12: in both repositories, an id that exists only as a frequent
\* computer is, after registerFrequentComputer and checkinFrequentComputer,
\* not reported by isDeviceEntered and absent from getEnteredDevices({}).
C12_FrequentExcludedEverywhere ==
    \A id \in DeviceIds : FrequentOnlyCheckedIn(id) => ExcludedFromOnSiteView(id)

\* min(l, max(0, N - o)), with l = 10 when the criteria has no limit
PageSize(N, criteria) ==
    Min(IF criteria.limit # None THEN ValueOf(criteria.limit) ELSE DefaultPageSize,
        Max(0, N - ValueOf(criteria.offset)))

\* C13: with N records stored, each of getComputers, getMedicalDevices and
\* getFrequentComputers, in either repository, answers {limit: l, offset: o}
\* with exactly min(l, max(0, N - o)) records, and {offset: o} alone with
\* exactly min(10, max(0, N - o)) records.
C13_PaginationWindow ==
    \A criteria \in Criteria :
        (criteria.filterBy = None /\ criteria.offset # None) =>
            /\ \A page \in getComputersBy(criteria) :
                  Cardinality(page) = PageSize(Stored.computers, criteria)
            /\ \A page \in getMedicalDevicesBy(criteria) :
                  Cardinality(page) = PageSize(Stored.medicalDevices, criteria)
            /\ \A page \in getFrequentComputersBy(criteria) :
                  Cardinality(page) = PageSize(Stored.frequentComputers, criteria)

\* getFrequentComputers({filterBy: {field: "id", value: id}})
FilterById(id) == [EmptyCriteria EXCEPT !.filterBy = Some([field |-> "id", value |-> id])]

\* C14: after registerFrequentComputer(f) has succeeded, filtering the frequent
\* computers by f.device.id returns the record with that id and no record
\* with another id, its checkinURL and checkoutURL equal those of f, and the
\* unfiltered query lists the id.
C14_RegistrationRoundTrip ==
    Succeeded("registerFrequentComputer") =>
        /\ \A page \in getFrequentComputersBy(FilterById(last.ret.device.id)) :
              /\ \E r \in page : r.device.id = last.ret.device.id
              /\ \A r \in page :
                    /\ r.device.id = last.ret.device.id
                    /\ r.checkinURL = last.ret.checkinURL
                    /\ r.checkoutURL = last.ret.checkoutURL
        /\ \A page \in getFrequentComputersBy(EmptyCriteria) :
              \E r \in page : r.device.id = last.ret.device.id

PipelineOrder == <<"parse", "generateDeviceId", "savePhoto", "checkinMedicalDevice">>
IsPrefix(s, t) == Len(s) <= Len(t) /\ \A i \in 1..Len(s) : s[i] = t[i]
RepositoryCalled == "checkinMedicalDevice" \in {svc.calls[i] : i \in 1..Len(svc.calls)}

\* C15: in MedicalDeviceService.checkinMedicalDevice a request the schema
\* rejects ends with ValidationError at the caller, with neither savePhoto nor
\* repository.checkinMedicalDevice called; otherwise the steps run in the
\* order validate, generate id, savePhoto, repository.checkinMedicalDevice, and
\* the repository is called only once savePhoto has returned a URL.
C15_ServicePipeline ==
    /\ (svc.request # None /\ ~ValueOf(svc.request).valid) =>
          /\ svc.pc = "idle"
          /\ svc.err = ValidationError
          /\ svc.calls = <<"parse">>
          /\ ops = svc.started
    /\ IsPrefix(svc.calls, PipelineOrder)
    /\ ops = svc.started + (IF RepositoryCalled THEN 1 ELSE 0)
    /\ RepositoryCalled =>
          /\ svc.photoURL # None
          /\ last.op = "checkinMedicalDevice"
          /\ last.id = ValueOf(svc.deviceId)

\* a rejected request arriving after an earlier request went through the
\* whole pipeline and was stored
C15_Witness ==
    /\ svc.request # None /\ ~ValueOf(svc.request).valid
    /\ svc.err = ValidationError
    /\ ops > 0
    /\ last.op = "checkinMedicalDevice" /\ last.err = NoError

\* every entry of the enteredDevices index sits under its own id and names a
\* category whose map holds that id
IndexConsistent ==
    \A id \in DOMAIN mem.enteredDevices :
        /\ mem.enteredDevices[id].id = id
        /\ MapHas(mem[InMemory_mapOfType(mem.enteredDevices[id].type)], id)

\* the checkoutAt of the record of id in the named map of the in-memory repository
CheckoutAtIn(field, id) ==
    IF field = "frequentComputer" THEN mem[field][id].device.checkoutAt
    ELSE mem[field][id].checkoutAt

\* C16: in the in-memory repository every enteredDevices entry tagged
\* "computer", "medical-device" or "frequent-computer" has its id in the
\* computers, medicalDevices or frequentComputer map respectively; so
\* checkoutDevice never reads a missing record: it throws DeviceNotFound, or
\* it stamps checkoutAt on the record and removes the id from the index.
C16_IndexConsistent ==
    impl = "memory" =>
        /\ IndexConsistent
        /\ Called_("checkoutDevice") =>
              \/ last.err = DeviceNotFound /\ last.attempted = <<>>
              \/ /\ last.err = NoError
                 /\ Len(last.attempted) = 1
                 /\ MapHas(mem[last.attempted[1]], last.id)
                 /\ CheckoutAtIn(last.attempted[1], last.id) = last.t
                 /\ ~MapHas(mem.enteredDevices, last.id)

\* a successful in-memory checkout while another device is still entered
C16_Witness ==
    /\ impl = "memory"
    /\ Succeeded("checkoutDevice")
    /\ DOMAIN mem.enteredDevices # {}

\* the stored records with the given id, over all three collections
RecordsOf(id) == {c \in StoredDevices : c.id = id}

\* id is stored in more than one of the three collections
MultiCategory(id) ==
    Cardinality({k \in {"computers", "medicalDevices", "frequentComputers"} :
                    IF impl = "memory"
                    THEN MapHas(mem[IF k = "frequentComputers" THEN "frequentComputer" ELSE k], id)
                    ELSE MapHas(db[CASE k = "computers" -> "computers"
                                     [] k = "medicalDevices" -> "medical_devices"
                                     [] k = "frequentComputers" -> "frequent_computers"], id)}) > 1

\* C17: when an id is stored under more than one category, a successful
\* checkoutDevice(id, t) stamps checkoutAt = t on every record with that id, in
\* either repository, so none is left with a checkinAt and no checkoutAt while
\* isDeviceEntered(id) reports false.
C17_CheckoutStampsEveryCategory ==
    (Succeeded("checkoutDevice") /\ MultiCategory(last.id)) =>
        /\ \A c \in RecordsOf(last.id) : c.checkoutAt = last.t
        /\ ~isDeviceEntered(last.id) =>
              \A c \in RecordsOf(last.id) : ~(c.checkinAt # None /\ c.checkoutAt = None)

====
